---- MODULE Spec2Model ----
(***************************************************************************)
(* A model of sum_calculator.py: the summation routine sum_numbers, its    *)
(* list wrapper sum_from_list, and the interactive read loop               *)
(* interactive_calculator.                                                 *)
(*                                                                         *)
(* Python values are records [type, hi, lo].  For the numeric types the    *)
(* record denotes the integer hi * 2^53 + lo, with lo small: Python ints   *)
(* are unbounded and exact, Python floats are IEEE-754 doubles with a      *)
(* 53-bit significand, so a float result is rounded to the nearest double  *)
(* (ties to even) after every addition.                                    *)
(***************************************************************************)
EXTENDS Integers, Sequences, FiniteSets

\* ------------------------------------------------------------ bounds
MaxLen == 3          \* longest argument sequence drawn for sum_numbers
MaxInputLen == 2     \* longest line the user types, in characters
MaxReads == 3        \* lines read in one interactive session before the user must end it

\* ------------------------------------------------------------ values
PyInt(n) == [type |-> "int", hi |-> 0, lo |-> n]
PyFloat(n) == [type |-> "float", hi |-> 0, lo |-> n]
BigInt(h, n) == [type |-> "int", hi |-> h, lo |-> n]
BigFloat(h, n) == [type |-> "float", hi |-> h, lo |-> n]
PyBool(b) == [type |-> "bool", hi |-> 0, lo |-> IF b THEN 1 ELSE 0]
PyStr(n) == [type |-> "str", hi |-> 0, lo |-> n]
PyNone == [type |-> "NoneType", hi |-> 0, lo |-> 0]

PyList == [type |-> "list", hi |-> 0, lo |-> 0]

\* mutant: isinstance(num, (int, float, str))
isinstance_also_str(num) == num.type \in {"int", "bool", "float", "str"}

\* isinstance(num, (int, float)); bool is a subclass of int
isinstance_int_float(num) == num.type \in {"int", "bool", "float"}

Abs(n) == IF n < 0 THEN -n ELSE n
Sign(n) == IF n < 0 THEN -1 ELSE 1

RECURSIVE Pow2(_)
Pow2(k) == IF k = 0 THEN 1 ELSE 2 * Pow2(k - 1)

RECURSIVE FloorLog2(_)
FloorLog2(a) == IF a <= 1 THEN 0 ELSE 1 + FloorLog2(a \div 2)

\* b rounded to the nearest multiple of u, ties to the even multiple
RoundHalfEven(b, u) ==
  LET q == b \div u
      r == b % u
  IN  IF 2 * r < u THEN q * u
      ELSE IF 2 * r > u THEN (q + 1) * u
      ELSE IF q % 2 = 0 THEN q * u ELSE (q + 1) * u

\* The double nearest to the integer hi * 2^53 + lo.  Below 2^53 every
\* integer is a double; in [2^(53+k), 2^(54+k)) doubles are 2^(k+1) apart.
RoundToDouble(hi, lo) ==
  IF hi = 0 THEN [hi |-> 0, lo |-> lo]
  ELSE LET s == Sign(hi)
           A == Abs(hi)
           b == s * lo
           k == FloorLog2(A)
           u == IF b < 0 /\ A = Pow2(k) THEN Pow2(k) ELSE Pow2(k + 1)
       IN  [hi |-> hi, lo |-> s * RoundHalfEven(b, u)]

\* total + num for two numeric values: int + int is exact; as soon as one
\* operand is a float the other is converted to float and the sum is rounded
\* mutant: total = num in place of total += num
py_add_assigns(total, num) ==
  [type |-> IF "float" \in {total.type, num.type} THEN "float" ELSE "int",
   hi |-> num.hi, lo |-> num.lo]

py_add(total, num) ==
  IF "float" \notin {total.type, num.type}
  THEN [type |-> "int", hi |-> total.hi + num.hi, lo |-> total.lo + num.lo]
  ELSE LET x == RoundToDouble(total.hi, total.lo)
           y == RoundToDouble(num.hi, num.lo)
           z == RoundToDouble(x.hi + y.hi, x.lo + y.lo)
       IN  [type |-> "float", hi |-> z.hi, lo |-> z.lo]

\* ------------------------------------------------------------ sum_numbers
\* The outcome of a call: a returned total, or a raised TypeError carrying the
\* offending element; at is the number of elements the loop had passed.
Return(total, at) == [kind |-> "return", value |-> total, at |-> at]
RaiseTypeError(num, at) == [kind |-> "TypeError", value |-> num, at |-> at]

\* mutant: every element is validated and the last offending one is reported
sum_numbers_loop_reports_last(args, idx, total) ==
  LET bad == {k \in idx..Len(args) : ~isinstance_int_float(args[k])}
      last == CHOOSE k \in bad : \A j \in bad : j <= k
      RECURSIVE fold(_, _)
      fold(k, t) == IF k > Len(args) THEN t ELSE fold(k + 1, py_add(t, args[k]))
  IN  IF bad # {} THEN RaiseTypeError(args[last], Len(args))
      ELSE Return(fold(idx, total), Len(args))

\* the for loop of sum_numbers, from position idx with the running total
RECURSIVE sum_numbers_loop(_, _, _)
sum_numbers_loop(args, idx, total) ==
  IF idx > Len(args) THEN Return(total, idx - 1)
  ELSE IF ~isinstance_int_float(args[idx]) THEN RaiseTypeError(args[idx], idx - 1)
  ELSE sum_numbers_loop(args, idx + 1, py_add(total, args[idx]))

\* mutant: total = 1
sum_numbers_from_one(args) == sum_numbers_loop(args, 1, PyInt(1))

sum_numbers(args) == sum_numbers_loop(args, 1, PyInt(0))

\* mutant: sum_numbers(numbers), the list passed as one argument
sum_from_list_unstarred(numbers) == sum_numbers(<< PyList >>)

\* sum_numbers(*numbers): the list is unpacked into the positional arguments
sum_from_list(numbers) == sum_numbers([k \in 1..Len(numbers) |-> numbers[k]])

\* ------------------------------------------------------------ interactive input
\* A line typed by the user is a sequence of characters.
Chars == {" ", "1", "-", "x"}
Digits == {"1"}
DigitValue(c) == IF c = "1" THEN 1 ELSE 0

\* str.strip(): leading and trailing whitespace removed
RECURSIVE lstrip(_)
lstrip(s) == IF s # <<>> /\ Head(s) = " " THEN lstrip(Tail(s)) ELSE s

RECURSIVE rstrip(_)
rstrip(s) ==
  IF s # <<>> /\ s[Len(s)] = " " THEN rstrip(SubSeq(s, 1, Len(s) - 1)) ELSE s

strip(s) == rstrip(lstrip(s))

\* the decimal value of a run of digits
RECURSIVE DecimalValue(_)
DecimalValue(s) ==
  IF s = <<>> THEN 0
  ELSE 10 * DecimalValue(SubSeq(s, 1, Len(s) - 1)) + DigitValue(s[Len(s)])

\* float(user_input) over Chars: surrounding whitespace is ignored, then an
\* optional sign and at least one digit; anything else raises ValueError
ValueError == [ok |-> FALSE, value |-> PyNone]
Parsed(n) == [ok |-> TRUE, value |-> PyFloat(n)]

\* mutant: number = user_input, the text kept
float_keeps_text(user_input) ==
  LET t == strip(user_input)
      neg == t # <<>> /\ Head(t) = "-"
      d == IF neg THEN Tail(t) ELSE t
  IN  IF d # <<>> /\ \A k \in 1..Len(d) : d[k] \in Digits
      THEN [ok |-> TRUE, value |-> PyStr(DecimalValue(d))]
      ELSE ValueError

float(user_input) ==
  LET t == strip(user_input)
      neg == t # <<>> /\ Head(t) = "-"
      d == IF neg THEN Tail(t) ELSE t
  IN  IF d # <<>> /\ \A k \in 1..Len(d) : d[k] \in Digits
      THEN Parsed(IF neg THEN -DecimalValue(d) ELSE DecimalValue(d))
      ELSE ValueError

\* ------------------------------------------------------------ output
Line(msg) == [msg |-> msg, n |-> 0, numbers |-> <<>>, result |-> PyNone]
Prompt(n) == [msg |-> "Number", n |-> n, numbers |-> <<>>, result |-> PyNone]
SumLine(nums, result) ==
  [msg |-> "Sum of", n |-> 0, numbers |-> nums, result |-> result]
ErrorLine(e) ==
  [msg |-> "Error calculating sum", n |-> 0, numbers |-> <<>>, result |-> e]

\* ------------------------------------------------------------ inputs
Values ==
  { PyInt(1), PyInt(-2), BigInt(1, 1), PyBool(TRUE), PyFloat(1), BigFloat(1, 0),
    BigFloat(-1, 0), PyStr(3), PyNone }

IntSeq(s) == [k \in 1..Len(s) |-> PyInt(s[k])]

\* the argument lists of the repository's own tests
Examples ==
  { IntSeq(<<1, 2, 3, 4, 5>>), IntSeq(<<-1, -2, -3>>), IntSeq(<<10, -5, 3, -2>>),
    IntSeq(<<0, 0, 0>>) }

Inputs == UNION {[1..n -> Values] : n \in 0..MaxLen} \cup Examples

UserLines == UNION {[1..n -> Chars] : n \in 0..MaxInputLen}

Reorderings(s) ==
  { [k \in 1..Len(s) |-> s[f[k]]] :
      f \in {g \in [1..Len(s) -> 1..Len(s)] : \A a, b \in 1..Len(s) : g[a] = g[b] => a = b} }

NoResult == [kind |-> "none", value |-> PyNone, at |-> 0]

\* ------------------------------------------------------------ state
VARIABLES
  values,       \* the sequence handed to sum_numbers and sum_from_list
  perm,         \* a reordering of values, handed to sum_numbers
  res_direct,   \* outcome of sum_numbers(*values)
  res_list,     \* outcome of sum_from_list(values)
  res_perm,     \* outcome of sum_numbers(*perm)
  ipc,          \* interactive_calculator: "off", "loop", "input", "returned", "EOFError"
  numbers,      \* interactive_calculator: the collected list
  user_input,   \* interactive_calculator: the last line read, stripped
  out,          \* lines printed on standard output, prompts included
  reads,        \* lines read so far in the session
  accepted,     \* history: the value of every entry that parsed, in entry order
  sum_calls     \* history: calls of sum_from_list made by the session

vars ==
  << values, perm, res_direct, res_list, res_perm, ipc, numbers, user_input, out,
     reads, accepted, sum_calls >>

callVars == << values, perm, res_direct, res_list, res_perm >>
sessionVars == << ipc, numbers, user_input, out, reads, accepted, sum_calls >>

\* a caller about to apply the functions to a sequence of values
InitCalls ==
  /\ values \in Inputs
  /\ perm = <<>>
  /\ res_direct = NoResult /\ res_list = NoResult /\ res_perm = NoResult
  /\ ipc = "off"
  /\ numbers = <<>> /\ user_input = <<>> /\ out = <<>>
  /\ reads = 0 /\ accepted = <<>> /\ sum_calls = 0

\* interactive_calculator entered: banner printed, numbers = []
InitInteractive ==
  /\ values = <<>> /\ perm = <<>>
  /\ res_direct = NoResult /\ res_list = NoResult /\ res_perm = NoResult
  /\ ipc = "loop"
  /\ numbers = <<>> /\ user_input = <<>>
  /\ out = << Line("Simple Sum Calculator"), Line("Enter numbers to sum") >>
  /\ reads = 0 /\ accepted = <<>> /\ sum_calls = 0

Init == InitCalls \/ InitInteractive

\* ------------------------------------------------------------ direct calls
call_sum_numbers ==
  /\ ipc = "off" /\ res_direct = NoResult
  /\ res_direct' = sum_numbers(values)
  /\ UNCHANGED << values, perm, res_list, res_perm >>
  /\ UNCHANGED sessionVars

call_sum_from_list ==
  /\ ipc = "off" /\ res_list = NoResult
  /\ res_list' = sum_from_list(values)
  /\ UNCHANGED << values, perm, res_direct, res_perm >>
  /\ UNCHANGED sessionVars

call_sum_numbers_permuted ==
  /\ ipc = "off" /\ res_direct # NoResult /\ res_list # NoResult /\ res_perm = NoResult
  /\ \E p \in Reorderings(values) :
       /\ perm' = p
       /\ res_perm' = sum_numbers(p)
  /\ UNCHANGED << values, res_direct, res_list >>
  /\ UNCHANGED sessionVars

\* ------------------------------------------------------------ interactive_calculator
\* input(f"Number {len(numbers) + 1} ..."): the prompt is written, then the call blocks
prompt ==
  /\ ipc = "loop"
  /\ out' = Append(out, Prompt(Len(numbers) + 1))
  /\ ipc' = "input"
  /\ UNCHANGED << numbers, user_input, reads, accepted, sum_calls >>
  /\ UNCHANGED callVars

\* mutant: the summation leaves out the first number
after_loop_drops_first(nums, printed) ==
  IF nums = <<>> THEN [out |-> Append(printed, Line("No numbers entered.")), calls |-> 0]
  ELSE LET result == sum_from_list(Tail(nums))
       IN  [out |-> Append(printed, SumLine(nums, result.value)), calls |-> 1]

\* mutant: no test for the empty list
after_loop_no_empty_test(nums, printed) ==
  LET result == sum_from_list(nums)
  IN  [out |-> Append(printed, SumLine(nums, result.value)), calls |-> 1]

\* what follows the loop: the "no numbers" message, or the summation and its
\* result; calls counts the calls of sum_from_list
after_loop(nums, printed) ==
  IF nums = <<>> THEN [out |-> Append(printed, Line("No numbers entered.")), calls |-> 0]
  ELSE LET result == sum_from_list(nums)
       IN  IF result.kind = "return"
           THEN [out |-> Append(printed, SumLine(nums, result.value)), calls |-> 1]
           ELSE [out |-> Append(printed, ErrorLine(result.value)), calls |-> 1]

\* a blank line: break, then the rest of the function
enter_blank ==
  /\ ipc = "input"
  /\ \E line \in UserLines :
       /\ strip(line) = <<>>
       /\ user_input' = strip(line)
  /\ reads' = reads + 1
  /\ out' = after_loop(numbers, out).out
  /\ sum_calls' = sum_calls + after_loop(numbers, out).calls
  /\ ipc' = "returned"
  /\ UNCHANGED << numbers, accepted >>
  /\ UNCHANGED callVars

\* a line that float() accepts: numbers.append(number), back to the top of the loop
enter_number ==
  /\ ipc = "input" /\ reads < MaxReads
  /\ \E line \in UserLines :
       /\ strip(line) # <<>>
       /\ float(strip(line)).ok
       /\ user_input' = strip(line)
       /\ numbers' = Append(numbers, float(strip(line)).value)
       /\ accepted' = Append(accepted, float(line).value)
  /\ reads' = reads + 1
  /\ ipc' = "loop"
  /\ UNCHANGED << out, sum_calls >>
  /\ UNCHANGED callVars

\* mutant: the rejected entry is collected as 0.0
enter_invalid_appends ==
  /\ ipc = "input" /\ reads < MaxReads
  /\ \E line \in UserLines :
       /\ strip(line) # <<>>
       /\ ~float(strip(line)).ok
       /\ user_input' = strip(line)
  /\ reads' = reads + 1
  /\ out' = Append(out, Line("Please enter a valid number."))
  /\ numbers' = Append(numbers, PyFloat(0))
  /\ ipc' = "loop"
  /\ UNCHANGED << accepted, sum_calls >>
  /\ UNCHANGED callVars

\* a line that float() rejects: except ValueError, back to the top of the loop
enter_invalid ==
  /\ ipc = "input" /\ reads < MaxReads
  /\ \E line \in UserLines :
       /\ strip(line) # <<>>
       /\ ~float(strip(line)).ok
       /\ user_input' = strip(line)
  /\ reads' = reads + 1
  /\ out' = Append(out, Line("Please enter a valid number."))
  /\ ipc' = "loop"
  /\ UNCHANGED << numbers, accepted, sum_calls >>
  /\ UNCHANGED callVars

\* mutant: break in place of return
interrupt_breaks ==
  /\ ipc = "input"
  /\ out' = after_loop(numbers, Append(out, Line("Calculation cancelled."))).out
  /\ sum_calls' = sum_calls + after_loop(numbers, out).calls
  /\ ipc' = "returned"
  /\ UNCHANGED << numbers, user_input, reads, accepted >>
  /\ UNCHANGED callVars

\* Ctrl-C while input() waits: except KeyboardInterrupt, return
interrupt ==
  /\ ipc = "input"
  /\ out' = Append(out, Line("Calculation cancelled."))
  /\ ipc' = "returned"
  /\ UNCHANGED << numbers, user_input, reads, accepted, sum_calls >>
  /\ UNCHANGED callVars

\* end of file on standard input: input() raises EOFError, which nothing catches
end_of_file ==
  /\ ipc = "input"
  /\ ipc' = "EOFError"
  /\ UNCHANGED << numbers, user_input, out, reads, accepted, sum_calls >>
  /\ UNCHANGED callVars

Next ==
  \/ call_sum_numbers
  \/ call_sum_from_list
  \/ call_sum_numbers_permuted
  \/ prompt
  \/ enter_blank
  \/ enter_number
  \/ enter_invalid
  \/ interrupt
  \/ end_of_file

Spec == Init /\ [][Next]_vars

\* ------------------------------------------------------------ reference notions
NumericTypes == {"int", "bool", "float"}
IsNumeric(v) == v.type \in NumericTypes
AllNumeric(s) == \A k \in 1..Len(s) : IsNumeric(s[k])
AllInts(s) == \A k \in 1..Len(s) : s[k].type \in {"int", "bool"}
HasFloat(s) == \E k \in 1..Len(s) : s[k].type = "float"

\* the number a numeric value denotes, and the exact sum of a sequence of them
Num(v) == [hi |-> v.hi, lo |-> v.lo]

RECURSIVE ExactSum(_)
ExactSum(s) ==
  IF s = <<>> THEN [hi |-> 0, lo |-> 0]
  ELSE LET r == ExactSum(SubSeq(s, 1, Len(s) - 1))
       IN  [hi |-> r.hi + s[Len(s)].hi, lo |-> r.lo + s[Len(s)].lo]

Representable(x) == RoundToDouble(x.hi, x.lo) = x

\* every element and every partial sum is a double
PrefixesRepresentable(s) ==
  \A k \in 1..Len(s) :
    Representable(Num(s[k])) /\ Representable(ExactSum(SubSeq(s, 1, k)))

FirstNonNumeric(s) ==
  CHOOSE k \in 1..Len(s) : ~IsNumeric(s[k]) /\ \A j \in 1..(k - 1) : IsNumeric(s[j])

Last(s) == s[Len(s)]
Lines(msg) == {k \in 1..Len(out) : out[k].msg = msg}

\* the session ended on a blank line / on an interrupt
BlankEnded == ipc = "returned" /\ reads > 0 /\ user_input = <<>>
Interrupted == Lines("Calculation cancelled.") # {}
\* the last line read was neither blank nor a number
InvalidRead == reads > 0 /\ user_input # <<>> /\ ~float(user_input).ok

\* ------------------------------------------------------------ claims

\* C1 as stated: for every sequence of numeric values sum_numbers returns the
\* arithmetic sum of the elements.
C1_ArithmeticSum ==
  (res_direct # NoResult /\ AllNumeric(values)) =>
    (res_direct.kind = "return" /\ Num(res_direct.value) = ExactSum(values))

\* C1 amended: for every sequence of numeric values sum_numbers returns, 0 for
\* the empty sequence; the total is the exact arithmetic sum when every element
\* is an int (the four examples among them) and whenever every element and
\* every partial sum is exactly a double; with floats it is a float.
C1_SumOfNumbers ==
  (res_direct # NoResult /\ AllNumeric(values)) =>
    /\ res_direct.kind = "return"
    /\ res_direct.at = Len(values)
    /\ values = <<>> => res_direct.value = PyInt(0)
    /\ AllInts(values) =>
         res_direct.value.type = "int" /\ Num(res_direct.value) = ExactSum(values)
    /\ HasFloat(values) => res_direct.value.type = "float"
    /\ PrefixesRepresentable(values) => Num(res_direct.value) = ExactSum(values)
    /\ values = IntSeq(<<1, 2, 3, 4, 5>>) => res_direct.value = PyInt(15)
    /\ values = IntSeq(<<-1, -2, -3>>) => res_direct.value = PyInt(-6)
    /\ values = IntSeq(<<10, -5, 3, -2>>) => res_direct.value = PyInt(6)
    /\ values = IntSeq(<<0, 0, 0>>) => res_direct.value = PyInt(0)

C1_Witness ==
  /\ res_direct.kind = "return"
  /\ Len(values) = 3 /\ HasFloat(values) /\ ~AllInts(SubSeq(values, 1, 1))
  /\ PrefixesRepresentable(values)
  /\ ExactSum(values).hi # 0

\* C2: a non-numeric element at any position makes sum_numbers and
\* sum_from_list end in a TypeError; no total is returned.
C2_TypeErrorOnNonNumeric ==
  (\E k \in 1..Len(values) : ~IsNumeric(values[k])) =>
    /\ res_direct # NoResult =>
         res_direct.kind = "TypeError" /\ ~IsNumeric(res_direct.value)
    /\ res_list # NoResult =>
         res_list.kind = "TypeError" /\ ~IsNumeric(res_list.value)

C2_Witness ==
  /\ res_direct.kind = "TypeError" /\ res_list.kind = "TypeError"
  /\ Len(values) = 3
  /\ IsNumeric(values[1]) /\ IsNumeric(values[2]) /\ ~IsNumeric(values[3])

\* C3: sum_from_list(values) has the same outcome as sum_numbers(*values): the
\* same total, or a TypeError in the same cases for the same element.
C3_ListEqualsVariadic ==
  (res_direct # NoResult /\ res_list # NoResult) => res_list = res_direct

C3_Witness ==
  /\ res_direct.kind = "return" /\ res_list.kind = "return"
  /\ Len(values) = 3 /\ HasFloat(values) /\ ~AllInts(SubSeq(values, 3, 3))
  /\ res_list.value.hi # 0

\* C4 as stated: for every sequence of numeric values and every permutation of
\* it, sum_numbers returns the same total.
C4_OrderIndependent ==
  (res_perm # NoResult /\ AllNumeric(values)) =>
    Num(res_perm.value) = Num(res_direct.value)

\* C4 amended: the total is the same for every permutation when every element
\* is an int, and when in both orders every element and every partial sum is
\* exactly a double.
C4_OrderIndependentExact ==
  (res_perm # NoResult /\ AllNumeric(values)) =>
    /\ AllInts(values) => res_perm = res_direct
    /\ (PrefixesRepresentable(values) /\ PrefixesRepresentable(perm)) =>
         res_perm = res_direct

C4_Witness ==
  /\ res_perm.kind = "return"
  /\ Len(values) = 3 /\ perm # values /\ perm[1] = values[3]
  /\ HasFloat(values) /\ ~AllInts(SubSeq(values, 2, 2))
  /\ PrefixesRepresentable(values) /\ PrefixesRepresentable(perm)

\* C9: sum_numbers fails at the first non-numeric element: the TypeError names
\* that element (value and type), and the loop has passed only the elements
\* before it.
C9_FailsAtFirstNonNumeric ==
  (res_direct.kind = "TypeError") =>
    /\ res_direct.value = values[FirstNonNumeric(values)]
    /\ res_direct.at = FirstNonNumeric(values) - 1

C9_Witness ==
  /\ res_direct.kind = "TypeError"
  /\ Len(values) = 3
  /\ IsNumeric(values[1]) /\ values[2].type = "NoneType" /\ values[3].type = "str"

\* C5: a blank line ends entry; with at least one number collected the session
\* then prints, as its last line and once, the sum of exactly the accepted
\* numbers in entry order; nothing is printed after it, no prompt either.
C5_BlankEndsEntryAndSums ==
  /\ [](BlankEnded /\ accepted # <<>> =>
          /\ Last(out) = SumLine(accepted, sum_numbers(accepted).value)
          /\ PrefixesRepresentable(accepted) =>
               Num(Last(out).result) = ExactSum(accepted)
          /\ Cardinality(Lines("Sum of")) = 1
          /\ out[Len(out) - 1] = Prompt(Len(accepted) + 1)
          /\ sum_calls = 1)
  /\ [][BlankEnded => out' = out /\ ipc' = "returned"]_vars

C5_Witness ==
  /\ BlankEnded /\ Len(accepted) = 3
  /\ accepted[1] # accepted[2] /\ accepted[2] # accepted[3]
  /\ Last(out).msg = "Sum of"

\* C6: an entry that is not blank and does not parse leaves the collected list
\* as it was and sends the session back to the prompt, which then shows the
\* same number as before.
C6_InvalidEntryKeepsList ==
  /\ [][(ipc = "input" /\ reads' = reads + 1 /\ user_input' # <<>>
          /\ ~float(user_input').ok)
        => (numbers' = numbers /\ ipc' = "loop")]_vars
  /\ []((ipc = "input" /\ InvalidRead) =>
          /\ Last(out) = Prompt(Len(numbers) + 1)
          /\ out[Len(out) - 1] = Line("Please enter a valid number.")
          /\ out[Len(out) - 2] = Last(out))

C6_Witness ==
  /\ ipc = "input" /\ InvalidRead /\ Len(numbers) = 2
  /\ Len(user_input) = 2

\* C7: an interrupt at the prompt ends the session with no result: no
\* summation is made and no "Sum of" line is ever printed.
C7_InterruptNoResult ==
  Interrupted =>
    /\ ipc = "returned"
    /\ Last(out) = Line("Calculation cancelled.")
    /\ Lines("Sum of") = {} /\ Lines("No numbers entered.") = {}
    /\ sum_calls = 0

C7_Witness ==
  Interrupted /\ Len(numbers) = 2 /\ numbers[1] # numbers[2]

\* C8: entry ended with nothing collected prints the "no numbers" message,
\* makes no summation and prints no result.
C8_NoNumbersMessage ==
  (BlankEnded /\ numbers = <<>>) =>
    /\ Last(out) = Line("No numbers entered.")
    /\ Lines("Sum of") = {} /\ Lines("Error calculating sum") = {}
    /\ sum_calls = 0

C8_Witness ==
  /\ BlankEnded /\ numbers = <<>>
  /\ Cardinality(Lines("Please enter a valid number.")) = 2

\* C10: every element of the collected list is a float, the parse of one
\* accepted entry; the summation never fails and "Error calculating sum" is
\* never printed.
C10_NumbersAreFloats ==
  /\ \A k \in 1..Len(numbers) : numbers[k].type = "float"
  /\ numbers = accepted
  /\ Lines("Error calculating sum") = {}
  /\ ipc = "returned" => sum_numbers(numbers).kind = "return"

C10_Witness ==
  /\ ipc = "returned" /\ Len(numbers) = 2 /\ sum_calls = 1
  /\ Lines("Please enter a valid number.") # {}

====
